---- MODULE Spec2Model ----
(***************************************************************************)
(* A model of bms-rs: the key codec (src/src/bms.rs), the line grammars    *)
(* (src/src/bms/parser.rs), the chart builder (src/src/bms/format.rs) and  *)
(* the timeline builder and its queries (src/src/bms/timeline.rs).         *)
(*                                                                         *)
(* Number representation.  The program computes in f32 and truncates       *)
(* times to i64 milliseconds.  The model keeps every f32 value as an exact *)
(* integer multiple of a fixed unit:                                       *)
(*   - a measure (score position) is a number of 1/MU measures;            *)
(*   - a tempo, a stop argument and a measure length are numbers of        *)
(*     1/FX (tenths);                                                      *)
(*   - a render position is a number of 1/(MU*FX*FX).                      *)
(* The values the model draws (tempos 120, 128, 130, 240; lengths 0.5,     *)
(* 1.0, 2.0; stops of 192 and -384 units; measures on a quarter grid)      *)
(* make each f32 product either exact or at least 1/13 ms away from the    *)
(* next whole millisecond, so the truncation `as i64` of the f32 product   *)
(* and TruncDiv of the exact quotient agree.  Zero tempos and lengths,     *)
(* NaN and infinities are outside the values drawn.                        *)
(***************************************************************************)
EXTENDS Integers, Sequences, FiniteSets, TLC

VARIABLES
    pc,            \* "parsing" | "built" | "aborted": where the load is
    panic,         \* the panic that aborted the load, "none" otherwise
    metadata,      \* BmsBuilder.metadata: header -> value
    keysounds,     \* BmsBuilder.keysounds: key -> path
    bga_layers,    \* BmsBuilder.bga_layers: key -> path
    objects,       \* BmsBuilder.objects, then BMS.objects
    base_bpm,      \* TimelineBuilder.base_bpm
    bpms,          \* TimelineBuilder.bpms: key -> tempo
    stops,         \* TimelineBuilder.stops: key -> stop argument
    measure_lens,  \* TimelineBuilder.measure_lens (its first NumMeasures entries)
    events,        \* TimelineBuilder.events
    timeline,      \* Timeline.events of the built timeline
    chart,         \* BMS.title and BMS.artist of the built chart
    ncmds,         \* lines parsed / builder calls made so far
    line,          \* the line handled by the last ParseLine
    applied,       \* the grammar whose parse_line_into_bms returned true for it
    query,         \* the last timeline query and its result
    codec          \* the last key codec operation, its input and its result

vars == <<pc, panic, metadata, keysounds, bga_layers, objects, base_bpm, bpms,
          stops, measure_lens, events, timeline, chart, ncmds, line, applied,
          query, codec>>

bmsVars == <<metadata, keysounds, bga_layers, objects>>
tbVars == <<base_bpm, bpms, stops, measure_lens, events>>
parseVars == <<line, applied>>

-----------------------------------------------------------------------------
(* Bounds of the model.                                                    *)

\* lines parsed per load (Spec)
MaxLines == 3
\* builder calls per build (SpecTimeline)
MaxCalls == 3
\* measure_lens entries kept: measures 0 .. NumMeasures-1 can be overridden
NumMeasures == 3
\* longest token handed to Alphanumeric::from_str in SpecCodec
MaxTokLen == 3

\* units per measure (twentieths: halves, quarters and fifths are exact)
MU == 4 * 5
\* fixed-point unit of tempos, stop arguments and lengths (tenths)
FX == 2 * 5

-----------------------------------------------------------------------------
(* Characters and strings.  A string is a tuple of one-character strings.  *)

BASE36 == <<"0","1","2","3","4","5","6","7","8","9","A","B","C","D","E","F",
            "G","H","I","J","K","L","M","N","O","P","Q","R","S","T","U","V",
            "W","X","Y","Z">>

LOWER36 == <<"0","1","2","3","4","5","6","7","8","9","a","b","c","d","e","f",
             "g","h","i","j","k","l","m","n","o","p","q","r","s","t","u","v",
             "w","x","y","z">>

Range(s) == {s[i] : i \in 1..Len(s)}

DecDigits == {BASE36[i] : i \in 1..10}

\* char::to_digit(radix): the digit value of c, -1 when c is no digit of
\* the radix; letters count in either case.
to_digit(c, radix) ==
    IF \E i \in 1..radix : BASE36[i] = c \/ LOWER36[i] = c
    THEN (CHOOSE i \in 1..radix : BASE36[i] = c \/ LOWER36[i] = c) - 1
    ELSE -1

RECURSIVE DigitsValue(_, _, _)
\* the fold of from_str_radix over the digits: acc * radix + digit,
\* -1 as soon as a character is no digit
DigitsValue(s, radix, acc) ==
    IF s = <<>> THEN acc
    ELSE IF to_digit(Head(s), radix) = -1 THEN -1
    ELSE DigitsValue(Tail(s), radix, acc * radix + to_digit(Head(s), radix))

\* {usize,u16,u32}::from_str_radix for the unsigned types: an empty string
\* and a lone sign are errors, one leading "+" is accepted, "-" is no digit.
\* -1 stands for Err.  (Overflow is an Err too; the tokens of the model are
\* too short to overflow.)
from_str_radix(s, radix) ==
    IF s = <<>> THEN -1
    ELSE IF Len(s) = 1 /\ s[1] \in {"+", "-"} THEN -1
    ELSE IF s[1] = "+" THEN DigitsValue(Tail(s), radix, 0)
    ELSE DigitsValue(s, radix, 0)

\* mutant: to_digit that knows upper-case letters only
from_str_upper_only(key) ==
    IF key = <<>> \/ \E i \in 1..Len(key) : key[i] \notin Range(BASE36) THEN 0
    ELSE DigitsValue(key, 36, 0)

\* Alphanumeric::from_str: the key, 0 when from_str_radix fails
from_str(key) ==
    IF from_str_radix(key, 36) = -1 THEN 0 ELSE from_str_radix(key, 36)

\* Alphanumeric::from_int
from_int(key) == key

\* mutant: the two digits pushed in the wrong order
as_base36_swapped(key) ==
    IF key \div 36 >= 36 THEN "panic"
    ELSE <<BASE36[(key % 36) + 1], BASE36[(key \div 36) + 1]>>

\* Alphanumeric::as_base36: BASE36.chars().nth(key / 36) and nth(key % 36);
\* nth past the alphabet is None and expect() panics
as_base36(key) ==
    IF key \div 36 >= 36 THEN "panic"
    ELSE <<BASE36[(key \div 36) + 1], BASE36[(key % 36) + 1]>>

-----------------------------------------------------------------------------
(* Timeline (src/src/bms/timeline.rs).                                     *)

Abs(x) == IF x < 0 THEN -x ELSE x

\* `as i64` of the quotient a / b: truncation toward zero (b # 0)
TruncDiv(a, b) ==
    IF (a < 0) = (b < 0) THEN Abs(a) \div Abs(b) ELSE -(Abs(a) \div Abs(b))

\* struct Event
Event(time, measure, pos, bpm, length) ==
    [time |-> time, measure |-> measure, pos |-> pos, bpm |-> bpm,
     length |-> length]

\* ((measure - old_measure) * (240_000f32 / bpm) * length) as i64
MeasureMs(dmeasure, bpm, length) ==
    TruncDiv(dmeasure * 240000 * length, MU * bpm)

\* mutant: the stop lasts stop_arg/96 of a measure
StopMsDoubled(bpm, stop_arg) == TruncDiv(240000 * stop_arg, bpm * 96)

\* (240_000f32 / bpm * stop_arg / 192f32) as i64
StopMs(bpm, stop_arg) == TruncDiv(240000 * stop_arg, bpm * 192)

\* Timeline::last_event (the caller has checked that v is not empty)
last_event(v) == v[Len(v)]

\* mutant: an event is appended only when the tempo differs
add_event_bpm_only(v, measure, bpm, length) ==
    IF v = <<>> THEN <<Event(0, measure, 0, bpm, length)>>
    ELSE LET old == last_event(v) IN
         IF old.bpm # bpm
         THEN Append(v, Event(old.time
                                + MeasureMs(measure - old.measure, old.bpm, old.length),
                              measure, 0, bpm, length))
         ELSE v

\* Timeline::add_event
add_event(v, measure, bpm, length) ==
    IF v = <<>> THEN <<Event(0, measure, 0, bpm, length)>>
    ELSE LET old == last_event(v) IN
         IF old.bpm # bpm \/ old.length # length
         THEN Append(v, Event(old.time
                                + MeasureMs(measure - old.measure, old.bpm, old.length),
                              measure, 0, bpm, length))
         ELSE v

\* mutant: the stop event is appended without the snapshot event before it
add_stop_event_no_snapshot(v, measure, stop_arg) ==
    LET old == last_event(v) IN
    Append(v, Event(old.time + StopMs(old.bpm, stop_arg), measure, old.pos,
                    old.bpm, old.length))

\* Timeline::add_stop_event, for a timeline that is not empty (on an empty
\* one last_event panics: see BuildLoop)
add_stop_event(v, measure, stop_arg) ==
    LET old == last_event(v)
        t1 == IF old.measure # measure
              THEN old.time + MeasureMs(measure - old.measure, old.bpm, old.length)
              ELSE old.time
        v1 == IF old.measure # measure
              THEN Append(v, Event(t1, measure, old.pos, old.bpm, old.length))
              ELSE v
    IN Append(v1, Event(t1 + StopMs(old.bpm, stop_arg), measure, old.pos,
                        old.bpm, old.length))

RECURSIVE BinarySearchLoop(_, _, _, _)
\* the loop of core::slice::binary_search_by (the `while size > 1` form of
\* the standard library this crate was written against): keys is the slice
\* seen through the comparator, base and the result are 0-based
BinarySearchLoop(keys, x, base, size) ==
    IF size > 1
    THEN LET half == size \div 2
             mid == base + half
         IN BinarySearchLoop(keys, x, IF keys[mid + 1] > x THEN base ELSE mid,
                             size - half)
    ELSE base

\* slice::binary_search_by: [ok |-> TRUE, i] is Ok(i), [ok |-> FALSE, i] is Err(i)
binary_search(keys, x) ==
    IF keys = <<>> THEN [ok |-> FALSE, i |-> 0]
    ELSE LET base == BinarySearchLoop(keys, x, 0, Len(keys)) IN
         IF keys[base + 1] = x THEN [ok |-> TRUE, i |-> base]
         ELSE [ok |-> FALSE, i |-> base + (IF keys[base + 1] < x THEN 1 ELSE 0)]

\* mutant: the match of the binary search is returned as it is
WalkForwardNone(keys, x, i) == i

RECURSIVE WalkForward(_, _, _)
\* while i < v.len() - 1 && v[i + 1].key == x { i += 1 }
WalkForward(keys, x, i) ==
    IF i < Len(keys) - 1 /\ keys[i + 2] = x THEN WalkForward(keys, x, i + 1)
    ELSE i

\* the body shared by last_event_index_in_measure and last_event_index_in_time
LastIndex(keys, x) ==
    LET r == binary_search(keys, x) IN
    IF r.ok THEN WalkForward(keys, x, r.i)
    ELSE IF r.i = 0 THEN 0 ELSE r.i - 1

\* Timeline::last_event_index_in_measure (0-based)
last_event_index_in_measure(v, measure) ==
    LastIndex([i \in 1..Len(v) |-> v[i].measure], measure)

\* Timeline::last_event_index_in_time (0-based)
last_event_index_in_time(v, time) ==
    LastIndex([i \in 1..Len(v) |-> v[i].time], time)

\* Timeline::time_from_measure
time_from_measure(v, measure) ==
    LET e == v[last_event_index_in_measure(v, measure) + 1] IN
    e.time + MeasureMs(measure - e.measure, e.bpm, e.length)

\* a score position as the fraction num / den of a measure
Frac(num, den) == [num |-> num, den |-> den]

\* mutant: the stop test is left out, every time is extrapolated
measure_from_time_no_stop(v, time) ==
    LET e == v[last_event_index_in_time(v, time) + 1] IN
    Frac(e.measure * 24000 * e.length + (time - e.time) * e.bpm * (MU \div FX),
         MU * 24000 * e.length)

\* Timeline::measure_from_time.  The f32 result
\* curr_measure + remaining_time * (curr_bpm / 240000) / curr_length is kept
\* as the exact fraction (the rounding of the f32 quotient is not modelled).
measure_from_time(v, time) ==
    LET i == last_event_index_in_time(v, time)
        e == v[i + 1]
    IN IF i < Len(v) - 1 /\ e.measure = v[i + 2].measure
       THEN Frac(e.measure, MU)
       ELSE Frac(e.measure * 24000 * e.length
                   + (time - e.time) * e.bpm * (MU \div FX),
                 MU * 24000 * e.length)

RECURSIVE CachePos(_, _)
\* Timeline::cache_event_pos, from index i (1-based) on
CachePos(v, i) ==
    IF i > Len(v) THEN v
    ELSE CachePos([v EXCEPT ![i].pos =
                       v[i - 1].pos + (v[i].measure - v[i - 1].measure)
                                       * v[i - 1].bpm * v[i - 1].length],
                  i + 1)

\* Timeline::cache_event_pos
cache_event_pos(v) == CachePos(v, 2)

\* Timeline::pos_from_measure, in units of 1/(MU*FX*FX), speed a whole number
pos_from_measure(v, measure, speed) ==
    LET e == v[last_event_index_in_measure(v, measure) + 1] IN
    e.pos * speed + (measure - e.measure) * speed * e.bpm * e.length

-----------------------------------------------------------------------------
(* TimelineBuilder (src/src/bms/timeline.rs).                              *)

\* enum TimelineEvent: BPM { measure, bpm } and STOP { measure, duration }
TimelineEvent(kind, measure, val) ==
    [kind |-> kind, measure |-> measure, val |-> val]

\* the fields of a TimelineBuilder that build reads
TimelineBuilder(base, lens, evs) ==
    [base_bpm |-> base, measure_lens |-> lens, events |-> evs]

\* TimelineBuilder::new: 130 BPM, vec![1.0; 1000], no events
NewBaseBpm == 130 * FX
NewMeasureLens == [i \in 1..NumMeasures |-> FX]

RECURSIVE SortedSeq(_)
\* sort_by(partial_cmp) followed by dedup: the distinct values, ascending
SortedSeq(S) ==
    IF S = {} THEN <<>>
    ELSE LET m == CHOOSE x \in S : \A y \in S : x <= y
         IN <<m>> \o SortedSeq(S \ {m})

\* one step of the stable sort: e goes behind every element whose measure
\* is not larger
InsertByMeasure(sorted, e) ==
    LET n == Cardinality({i \in 1..Len(sorted) : sorted[i].measure <= e.measure})
    IN SubSeq(sorted, 1, n) \o <<e>> \o SubSeq(sorted, n + 1, Len(sorted))

RECURSIVE SortByMeasure(_)
\* sort_by(|a, b| a.measure.partial_cmp(&b.measure)): stable
SortByMeasure(s) ==
    IF s = <<>> THEN <<>>
    ELSE InsertByMeasure(SortByMeasure(SubSeq(s, 1, Len(s) - 1)), s[Len(s)])

RECURSIVE MeasureIndices(_, _, _, _)
\* build, `measure_indices`: (index, length) wherever measure_lens changes
\* value, after (0, measure_lens[0]); i is the 0-based index looked at
MeasureIndices(lens, i, last_value, out) ==
    IF i >= Len(lens) THEN out
    ELSE IF last_value # lens[i + 1]
         THEN MeasureIndices(lens, i + 1, lens[i + 1], Append(out, <<i, lens[i + 1]>>))
         ELSE MeasureIndices(lens, i + 1, last_value, out)

Keys(s) == [i \in 1..Len(s) |-> s[i].measure]
Firsts(s) == [i \in 1..Len(s) |-> s[i][1]]

RECURSIVE BuildLoop(_, _, _, _, _, _, _)
\* build, `for measure in timeline_measures`: ms are the breakpoints left,
\* v the events so far.  add_stop_event on an empty timeline panics in
\* last_event ("Empty timeline").
BuildLoop(ms, v, last_bpm, last_len, bpm_measures, stop_measures, measure_indices) ==
    IF ms = <<>> THEN [panic |-> "none", events |-> v]
    ELSE
      LET measure == Head(ms)
          fb == binary_search(Keys(bpm_measures), measure)
          bpm == IF fb.ok THEN bpm_measures[fb.i + 1].val ELSE last_bpm
          fl == binary_search(Firsts(measure_indices), measure \div MU)
          len == IF measure % MU = 0 /\ fl.ok
                 THEN measure_indices[fl.i + 1][2] ELSE last_len
          fs == binary_search(Keys(stop_measures), measure)
      IN IF fs.ok /\ v = <<>>
         THEN [panic |-> "Empty timeline", events |-> v]
         ELSE BuildLoop(Tail(ms),
                        add_event(IF fs.ok
                                  THEN add_stop_event(v, measure,
                                                      stop_measures[fs.i + 1].val)
                                  ELSE v,
                                  measure, bpm, len),
                        bpm, len, bpm_measures, stop_measures, measure_indices)

\* mutant: the first tempo is always the base tempo
InitialBpmBaseOnly(b, bpm_measures) == b.base_bpm

\* build, `last_bpm`: the base tempo unless the first tempo change is at measure 0
InitialBpm(b, bpm_measures) ==
    IF bpm_measures = <<>> \/ bpm_measures[1].measure > 0
    THEN b.base_bpm ELSE bpm_measures[1].val

\* TimelineBuilder::build: [panic, events]
build(b) ==
    LET bpm_measures == SortByMeasure(SelectSeq(b.events, LAMBDA e : e.kind = "BPM"))
        stop_measures == SortByMeasure(SelectSeq(b.events, LAMBDA e : e.kind = "STOP"))
        measure_indices == MeasureIndices(b.measure_lens, 1, b.measure_lens[1],
                                          <<<<0, b.measure_lens[1]>>>>)
        timeline_measures ==
            SortedSeq({b.events[i].measure : i \in 1..Len(b.events)}
                      \cup {measure_indices[i][1] * MU : i \in 1..Len(measure_indices)})
        r == BuildLoop(timeline_measures, <<>>, InitialBpm(b, bpm_measures),
                       measure_indices[1][2], bpm_measures, stop_measures,
                       measure_indices)
    IN IF r.panic # "none" THEN r
       ELSE [panic |-> "none", events |-> cache_event_pos(r.events)]

\* TimelineBuilder::find_bpm
find_bpm(table, bpm_key) == IF bpm_key \in DOMAIN table THEN table[bpm_key] ELSE 0

\* TimelineBuilder::find_stop
find_stop(table, stop_key) == IF stop_key \in DOMAIN table THEN table[stop_key] ELSE 0

\* HashMap::insert
Insert(map, k, v) == [x \in DOMAIN map \cup {k} |-> IF x = k THEN v ELSE map[x]]

EmptyMap == [x \in {} |-> 0]

-----------------------------------------------------------------------------
(* The state after BmsBuilder::new / TimelineBuilder::new.                 *)

NoChart == [title |-> <<>>, artist |-> <<>>]
NoQuery == [op |-> "none", measure |-> 0, time |-> 0, res |-> Frac(0, 1)]
NoCodec == [op |-> "none", tok |-> <<>>, key |-> 0, text |-> <<>>, back |-> 0]

Init ==
    /\ pc = "parsing"
    /\ panic = "none"
    /\ metadata = EmptyMap
    /\ keysounds = EmptyMap
    /\ bga_layers = EmptyMap
    /\ objects = <<>>
    /\ base_bpm = NewBaseBpm
    /\ bpms = EmptyMap
    /\ stops = EmptyMap
    /\ measure_lens = NewMeasureLens
    /\ events = <<>>
    /\ timeline = <<>>
    /\ chart = NoChart
    /\ ncmds = 0
    /\ line = <<>>
    /\ applied = "none"
    /\ query = NoQuery
    /\ codec = NoCodec

-----------------------------------------------------------------------------
(* SpecTimeline: the TimelineBuilder driven through its own methods, then  *)
(* built and queried.                                                      *)

\* the values the callers pass (tenths)
BpmVals == {120 * FX, 128 * FX}
StopVals == {192 * FX, -384 * FX}
LenVals == {FX \div 2, 2 * FX}
TableKeys == {1}
\* event positions: the start and the middle of measure 0, and the start of
\* every later measure kept
EventMeasures == {0, MU \div 2} \cup {i * MU : i \in 1..(NumMeasures - 1)}
\* query positions: every quarter measure up to the end of the last measure
QueryMeasures == {i * (MU \div 4) : i \in 0..(4 * NumMeasures)}

\* TimelineBuilder::with_base_bpm
with_base_bpm(b) ==
    /\ pc = "parsing" /\ ncmds < MaxCalls
    /\ base_bpm' = b
    /\ ncmds' = ncmds + 1
    /\ UNCHANGED <<pc, panic, bmsVars, bpms, stops, measure_lens, events,
                   timeline, chart, parseVars, query, codec>>

\* TimelineBuilder::with_bpm
with_bpm(bpm_key, bpm) ==
    /\ pc = "parsing" /\ ncmds < MaxCalls
    /\ bpms' = Insert(bpms, bpm_key, bpm)
    /\ ncmds' = ncmds + 1
    /\ UNCHANGED <<pc, panic, bmsVars, base_bpm, stops, measure_lens, events,
                   timeline, chart, parseVars, query, codec>>

\* TimelineBuilder::with_stop
with_stop(stop_key, stop) ==
    /\ pc = "parsing" /\ ncmds < MaxCalls
    /\ stops' = Insert(stops, stop_key, stop)
    /\ ncmds' = ncmds + 1
    /\ UNCHANGED <<pc, panic, bmsVars, base_bpm, bpms, measure_lens, events,
                   timeline, chart, parseVars, query, codec>>

\* TimelineBuilder::with_event
with_event(event) ==
    /\ pc = "parsing" /\ ncmds < MaxCalls
    /\ events' = Append(events, event)
    /\ ncmds' = ncmds + 1
    /\ UNCHANGED <<pc, panic, bmsVars, base_bpm, bpms, stops, measure_lens,
                   timeline, chart, parseVars, query, codec>>

\* TimelineBuilder::with_measure_len (measure below the table's capacity)
with_measure_len(measure, length) ==
    /\ pc = "parsing" /\ ncmds < MaxCalls
    /\ measure_lens' = [measure_lens EXCEPT ![measure + 1] = length]
    /\ ncmds' = ncmds + 1
    /\ UNCHANGED <<pc, panic, bmsVars, base_bpm, bpms, stops, events,
                   timeline, chart, parseVars, query, codec>>

\* the builder as build sees it
ThisBuilder == TimelineBuilder(base_bpm, measure_lens, events)

\* mutant: build drains the commands it has read
BuildDraining ==
    /\ pc = "parsing"
    /\ LET r == build(ThisBuilder) IN
       /\ pc' = IF r.panic = "none" THEN "built" ELSE "aborted"
       /\ panic' = r.panic
       /\ timeline' = IF r.panic = "none" THEN r.events ELSE <<>>
    /\ events' = <<>>
    /\ UNCHANGED <<bmsVars, base_bpm, bpms, stops, measure_lens, chart, ncmds,
                   parseVars, query, codec>>

\* a call of TimelineBuilder::build: the timeline, or the panic
Build ==
    /\ pc = "parsing"
    /\ LET r == build(ThisBuilder) IN
       /\ pc' = IF r.panic = "none" THEN "built" ELSE "aborted"
       /\ panic' = r.panic
       /\ timeline' = IF r.panic = "none" THEN r.events ELSE <<>>
    /\ UNCHANGED <<bmsVars, tbVars, chart, ncmds, parseVars, query, codec>>

\* a second call of TimelineBuilder::build on the same builder (build takes
\* &mut self and leaves every field as it was)
Rebuild ==
    /\ pc = "built" /\ query.op = "none"
    /\ LET r == build(ThisBuilder) IN
       /\ pc' = IF r.panic = "none" THEN "built" ELSE "aborted"
       /\ panic' = r.panic
       /\ timeline' = IF r.panic = "none" THEN r.events ELSE <<>>
    /\ query' = [NoQuery EXCEPT !.op = "build"]
    /\ UNCHANGED <<bmsVars, tbVars, chart, ncmds, parseVars, codec>>

\* the tempo changes and the stops a caller adds with with_event
BpmEvents == {TimelineEvent("BPM", m, b) : m \in EventMeasures, b \in BpmVals}
StopEvents == {TimelineEvent("STOP", m, s) : m \in EventMeasures, s \in StopVals}

\* the times a caller asks about: around every event, and inside every gap
QueryTimes(v) ==
    LET ts == {v[i].time : i \in 1..Len(v)} IN
    ts \cup {t - 1 : t \in ts}
       \cup {(v[i].time + v[i + 1].time) \div 2 : i \in 1..(Len(v) - 1)}

\* a call of Timeline::time_from_measure
TimeFromMeasure(measure) ==
    /\ pc = "built" /\ query.op = "none"
    /\ query' = [op |-> "time_from_measure", measure |-> measure,
                 time |-> time_from_measure(timeline, measure), res |-> Frac(0, 1)]
    /\ UNCHANGED <<pc, panic, bmsVars, tbVars, timeline, chart, ncmds, parseVars,
                   codec>>

\* a call of Timeline::measure_from_time
MeasureFromTime(time) ==
    /\ pc = "built" /\ query.op = "none"
    /\ query' = [op |-> "measure_from_time", measure |-> 0, time |-> time,
                 res |-> measure_from_time(timeline, time)]
    /\ UNCHANGED <<pc, panic, bmsVars, tbVars, timeline, chart, ncmds, parseVars,
                   codec>>

\* measure_from_time(time_from_measure(measure)): the second call of the round trip
RoundTrip ==
    /\ pc = "built" /\ query.op = "time_from_measure"
    /\ query' = [query EXCEPT !.op = "round_trip",
                              !.res = measure_from_time(timeline, query.time)]
    /\ UNCHANGED <<pc, panic, bmsVars, tbVars, timeline, chart, ncmds, parseVars,
                   codec>>

NextTimeline ==
    \/ \E b \in BpmVals : with_base_bpm(b)
    \/ \E k \in TableKeys : with_bpm(k, 120 * FX)
    \/ \E k \in TableKeys : with_stop(k, 192 * FX)
    \/ \E e \in BpmEvents : with_event(e)
    \/ \E e \in StopEvents : with_event(e)
    \/ \E m \in 0..(NumMeasures - 1), l \in LenVals : with_measure_len(m, l)
    \/ Build
    \/ Rebuild
    \/ \E m \in QueryMeasures : TimeFromMeasure(m)
    \/ \E t \in QueryTimes(timeline) : MeasureFromTime(t)
    \/ RoundTrip

SpecTimeline == Init /\ [][NextTimeline]_vars

-----------------------------------------------------------------------------
(* Claims about the built timeline (SpecTimeline).                         *)

\* C1: the events build returns are sorted non-decreasing by measure and
\* by time
C1_EventsSorted ==
    pc = "built" =>
        \A i \in 1..(Len(timeline) - 1) :
            /\ timeline[i].measure <= timeline[i + 1].measure
            /\ timeline[i].time <= timeline[i + 1].time

\* C2: for every set of commands build completes with at least one event,
\* the first one at measure 0 and time 0, and with exactly one event when
\* only a base tempo was set
C2_BuildCompletes ==
    /\ pc # "aborted"
    /\ pc = "built" =>
        /\ Len(timeline) >= 1
        /\ timeline[1].measure = 0
        /\ timeline[1].time = 0
        /\ (events = <<>> /\ measure_lens = NewMeasureLens) => Len(timeline) = 1

\* the stop commands that are alone on their measure, past measure 0
LoneStops ==
    {i \in 1..Len(events) :
        /\ events[i].kind = "STOP"
        /\ events[i].measure > 0
        /\ \A j \in 1..Len(events) :
              (j # i /\ events[j].kind = "STOP") => events[j].measure # events[i].measure}

\* the builder without its i-th command
Without(i) ==
    TimelineBuilder(base_bpm, measure_lens,
                    SubSeq(events, 1, i - 1) \o SubSeq(events, i + 1, Len(events)))

\* the tempo of the last event of v before measure m
TempoBefore(v, m) ==
    LET before == {i \in 1..Len(v) : v[i].measure < m}
    IN v[CHOOSE i \in before : \A j \in before : j <= i].bpm

\* the shift of the queried measure caused by the i-th command, minus the
\* stop's own duration in whole milliseconds at the tempo in effect before it
ShiftError(i) ==
    LET v0 == build(Without(i)).events
        d == TruncDiv(240000 * events[i].val,
                      192 * TempoBefore(v0, events[i].measure))
    IN query.time - time_from_measure(v0, query.measure) - d

\* C4 as stated: with a stop of U > 0 units, the time of the stop's measure
\* and of every measure after it is later by exactly the stop's duration
C4_ShiftExact ==
    (pc = "built" /\ query.op = "time_from_measure") =>
        \A i \in LoneStops :
            (events[i].val > 0 /\ query.measure >= events[i].measure)
                => ShiftError(i) = 0

\* C4 amended: the time of the stop's measure is later by exactly the stop's
\* duration in whole milliseconds, the time of a later measure by that
\* duration give or take the millisecond lost when the times of the events
\* are truncated
C4_ShiftWithinTruncation ==
    (pc = "built" /\ query.op = "time_from_measure") =>
        \A i \in LoneStops :
            /\ query.measure = events[i].measure => ShiftError(i) = 0
            /\ query.measure > events[i].measure => ShiftError(i) \in {-1, 0, 1}

\* a measure past a stop is shifted by one millisecond less than the stop
C4_Witness ==
    /\ pc = "built" /\ query.op = "time_from_measure"
    /\ \E i \in LoneStops :
          /\ events[i].val > 0
          /\ query.measure > events[i].measure
          /\ ShiftError(i) = -1

\* the pauses of the built timeline: two consecutive events on one measure,
\* the second later than the first
Pauses ==
    {i \in 1..(Len(timeline) - 1) :
        /\ timeline[i].measure = timeline[i + 1].measure
        /\ timeline[i].time < timeline[i + 1].time}

\* C5: a time inside a pause maps to the measure of the pause
C5_FrozenInPause ==
    (pc = "built" /\ query.op = "measure_from_time") =>
        \A i \in Pauses :
            (timeline[i].time <= query.time /\ query.time < timeline[i + 1].time)
                => query.res = Frac(timeline[i].measure, MU)

\* the event in effect at measure m: the last one not after m
InEffect(v, m) ==
    LET upto == {i \in 1..Len(v) : v[i].measure <= m}
    IN v[CHOOSE i \in upto : \A j \in upto : j <= i]

\* |f - m/MU| is at most the score distance of 1 ms at tempo bpm, length len
WithinOneMs(f, m, bpm, len) ==
    Abs(f.num * MU - m * f.den)
        <= (IF f.den % 24000 = 0
            THEN (bpm * MU * (f.den \div 24000)) \div (FX * len)
            ELSE (bpm * MU * f.den) \div (240000 * len))

\* the measures that carry a stop: two consecutive events share them
StopSpans ==
    {timeline[i].measure : i \in {j \in 1..(Len(timeline) - 1) :
                                    timeline[j].measure = timeline[j + 1].measure}}

\* C6: for a measure M that carries no stop, measure_from_time(
\* time_from_measure(M)) is M within the score distance of 1 ms at the tempo
\* and length in effect at M
C6_RoundTrip ==
    (pc = "built" /\ query.op = "round_trip" /\ query.measure \notin StopSpans) =>
        WithinOneMs(query.res, query.measure,
                    InEffect(timeline, query.measure).bpm,
                    InEffect(timeline, query.measure).length)

-----------------------------------------------------------------------------
(* Line grammars (src/src/bms/parser.rs).  Lines are ASCII: a byte index   *)
(* is a character index.                                                   *)

METADATA_HEADERS == <<
    <<"P","L","A","Y","E","R">>,
    <<"G","E","N","R","E">>,
    <<"T","I","T","L","E">>,
    <<"A","R","T","I","S","T">>,
    <<"P","L","A","Y","L","E","V","E","L">>,
    <<"R","A","N","K">>,
    <<"T","O","T","A","L">>,
    <<"S","T","A","G","E","F","I","L","E">> >>

\* s[from..] (1-based, to the end)
From(s, from) == SubSeq(s, from, Len(s))

\* p occurs in s at index i
At(s, i, p) == i >= 1 /\ i + Len(p) - 1 <= Len(s) /\ SubSeq(s, i, i + Len(p) - 1) = p

\* str::starts_with
starts_with(s, p) == At(s, 1, p)

RECURSIVE TrimStart(_)
TrimStart(s) == IF s # <<>> /\ Head(s) = " " THEN TrimStart(Tail(s)) ELSE s

RECURSIVE TrimEnd(_)
TrimEnd(s) ==
    IF s # <<>> /\ s[Len(s)] = " " THEN TrimEnd(SubSeq(s, 1, Len(s) - 1)) ELSE s

\* str::trim (the space is the only whitespace of the lines modelled)
trim(s) == TrimEnd(TrimStart(s))

Min(S) == CHOOSE x \in S : \A y \in S : x <= y

None == [some |-> FALSE, key |-> <<>>, data |-> <<>>]
Some(key, data) == [some |-> TRUE, key |-> key, data |-> data]

\* MetadataParser::parse_line: "#" then one of the headers; the first header
\* of the list that the entry starts with
MetadataParser_parse_line(l) ==
    LET hs == {h \in 1..Len(METADATA_HEADERS) :
                  starts_with(l, <<"#">> \o METADATA_HEADERS[h])}
    IN IF hs = {} THEN None
       ELSE LET header == METADATA_HEADERS[Min(hs)]
            IN Some(header, trim(From(l, Len(header) + 2)))

\* the regex #TAG(?P<key>.+?) (?P<data>.*) of WavParser and BgaParser: the
\* leftmost #TAG followed by a key of at least one character and a space;
\* the key is lazy, so it ends before the first space after its first
\* character.  parse_line trims both captures.
TaggedLazy_parse_line(l, tag) ==
    LET ends(i) == {j \in (i + Len(tag) + 1)..Len(l) : l[j] = " "}
        starts == {i \in 1..Len(l) : At(l, i, tag) /\ ends(i) # {}}
    IN IF starts = {} THEN None
       ELSE LET i == Min(starts)
                j == Min(ends(i))
            IN Some(trim(SubSeq(l, i + Len(tag), j - 1)), trim(From(l, j + 1)))

\* WavParser::parse_line
WavParser_parse_line(l) == TaggedLazy_parse_line(l, <<"#","W","A","V">>)

\* BgaParser::parse_line
BgaParser_parse_line(l) == TaggedLazy_parse_line(l, <<"#","B","M","P">>)

\* the regex #TAG(?P<key>.{0,2}) (?P<data>.*) of BpmParser and StopParser:
\* the leftmost #TAG followed by at most two characters and a space; the key
\* is greedy, so the longest key that a space follows is taken.
\* parse_line trims both captures.
TaggedGreedy_parse_line(l, tag) ==
    LET lens(i) == {n \in 0..2 : i + Len(tag) + n <= Len(l)
                                  /\ l[i + Len(tag) + n] = " "}
        starts == {i \in 1..Len(l) : At(l, i, tag) /\ lens(i) # {}}
    IN IF starts = {} THEN None
       ELSE LET i == Min(starts)
                n == CHOOSE n \in lens(i) : \A k \in lens(i) : k <= n
            IN Some(trim(SubSeq(l, i + Len(tag), i + Len(tag) + n - 1)),
                    trim(From(l, i + Len(tag) + n + 1)))

\* BpmParser::parse_line
BpmParser_parse_line(l) == TaggedGreedy_parse_line(l, <<"#","B","P","M">>)

\* StopParser::parse_line
StopParser_parse_line(l) == TaggedGreedy_parse_line(l, <<"#","S","T","O","P">>)

\* the regex #(?P<measure>[0-9]{3})(?P<channel>[0-9]{2}):(?P<data>.*) of
\* ObjParser: the leftmost match; measure and channel parsed, data trimmed
ObjParser_captures(l) ==
    LET starts == {i \in 1..(Len(l) - 6) :
                      /\ l[i] = "#"
                      /\ \A k \in 1..5 : l[i + k] \in DecDigits
                      /\ l[i + 6] = ":"}
    IN IF starts = {} THEN [some |-> FALSE, measure |-> 0, channel |-> 0, data |-> <<>>]
       ELSE LET i == Min(starts)
            IN [some |-> TRUE,
                measure |-> from_str_radix(SubSeq(l, i + 1, i + 3), 10),
                channel |-> from_str_radix(SubSeq(l, i + 4, i + 5), 10),
                data |-> trim(From(l, i + 7))]

\* the literals f32::from_str accepts, as far as the lines modelled go: an
\* optional sign, digits, and an optional point with digits, with at least
\* one digit in all (exponents, "inf" and "nan" are not among the lines)
IsF32(s) ==
    LET body == IF s # <<>> /\ s[1] \in {"+", "-"} THEN Tail(s) ELSE s
        points == {i \in 1..Len(body) : body[i] = "."}
    IN /\ Cardinality(points) <= 1
       /\ \A i \in 1..Len(body) : body[i] \in DecDigits \cup {"."}
       /\ \E i \in 1..Len(body) : body[i] \in DecDigits

\* the value of such a literal in tenths (the lines modelled carry at most
\* one digit after the point)
F32(s) ==
    LET neg == s[1] = "-"
        body == IF s[1] \in {"+", "-"} THEN Tail(s) ELSE s
        points == {i \in 1..Len(body) : body[i] = "."}
        p == IF points = {} THEN Len(body) + 1 ELSE Min(points)
        whole == IF p = 1 THEN 0 ELSE from_str_radix(SubSeq(body, 1, p - 1), 10)
        tenth == IF p + 1 <= Len(body) THEN to_digit(body[p + 1], 10) ELSE 0
    IN (IF neg THEN -1 ELSE 1) * (whole * FX + tenth)

-----------------------------------------------------------------------------
(* BmsBuilder (src/src/bms/format.rs) and the grammars' parse_line_into_bms.*)

\* the BmsBuilder with its TimelineBuilder, as one value
Builder ==
    [metadata |-> metadata, keysounds |-> keysounds, bga_layers |-> bga_layers,
     objects |-> objects, base_bpm |-> base_bpm, bpms |-> bpms, stops |-> stops,
     measure_lens |-> measure_lens, events |-> events]

\* struct Object (hit_offset and longnote_hit_offset are None throughout)
Object(time, measure, channel, tag, key) ==
    [time |-> time, measure |-> measure, channel |-> channel,
     objtype |-> [tag |-> tag, key |-> key]]

\* what parse_line_into_bms did: returned false (matched = FALSE), returned
\* true with the builder b, or panicked
NoMatch(b) == [matched |-> FALSE, panic |-> "none", b |-> b]
Applied(b) == [matched |-> TRUE, panic |-> "none", b |-> b]
Panicked(b, msg) == [matched |-> TRUE, panic |-> msg, b |-> b]

\* MetadataParser::parse_line_into_bms
MetadataParser_into_bms(l, b) ==
    LET r == MetadataParser_parse_line(l) IN
    IF ~r.some THEN NoMatch(b)
    ELSE Applied([b EXCEPT !.metadata = Insert(b.metadata, r.key, r.data)])

\* WavParser::parse_line_into_bms
WavParser_into_bms(l, b) ==
    LET r == WavParser_parse_line(l) IN
    IF ~r.some THEN NoMatch(b)
    ELSE Applied([b EXCEPT !.keysounds = Insert(b.keysounds, from_str(r.key), r.data)])

\* BgaParser::parse_line_into_bms
BgaParser_into_bms(l, b) ==
    LET r == BgaParser_parse_line(l) IN
    IF ~r.some THEN NoMatch(b)
    ELSE Applied([b EXCEPT !.bga_layers = Insert(b.bga_layers, from_str(r.key), r.data)])

\* mutant: the base tempo is set only when the key field is empty
BpmParser_into_bms_empty_key(l, b) ==
    LET r == BpmParser_parse_line(l) IN
    IF ~r.some THEN NoMatch(b)
    ELSE IF ~IsF32(r.data) THEN Panicked(b, "Invalid data found on BPM header.")
    ELSE IF r.key = <<>> THEN Applied([b EXCEPT !.base_bpm = F32(r.data)])
    ELSE Applied([b EXCEPT !.bpms = Insert(b.bpms, from_str(r.key), F32(r.data))])

\* BpmParser::parse_line_into_bms
BpmParser_into_bms(l, b) ==
    LET r == BpmParser_parse_line(l) IN
    IF ~r.some THEN NoMatch(b)
    ELSE IF ~IsF32(r.data) THEN Panicked(b, "Invalid data found on BPM header.")
    ELSE IF from_str(r.key) = 0 THEN Applied([b EXCEPT !.base_bpm = F32(r.data)])
    ELSE Applied([b EXCEPT !.bpms = Insert(b.bpms, from_str(r.key), F32(r.data))])

\* mutant: a stop value that is no number counts as 0
StopParser_into_bms_or_zero(l, b) ==
    LET r == StopParser_parse_line(l) IN
    IF ~r.some THEN NoMatch(b)
    ELSE Applied([b EXCEPT !.stops = Insert(b.stops, from_str(r.key),
                                            IF IsF32(r.data) THEN F32(r.data) ELSE 0)])

\* StopParser::parse_line_into_bms
StopParser_into_bms(l, b) ==
    LET r == StopParser_parse_line(l) IN
    IF ~r.some THEN NoMatch(b)
    ELSE IF ~IsF32(r.data) THEN Panicked(b, "Invalid data found on STOP header.")
    ELSE Applied([b EXCEPT !.stops = Insert(b.stops, from_str(r.key), F32(r.data))])

\* mutant: the slot index, not the byte index, over the payload length
SlotMeasureHalved(measure, iter, data) ==
    measure * MU + ((iter \div 2) * MU) \div Len(data)

\* measure as f32 + (iter as f32) / data.len() as f32, in 1/MU (exact for
\* the payloads modelled: 1, 2, 4 or 5 slots)
SlotMeasure(measure, iter, data) == measure * MU + (iter * MU) \div Len(data)

\* &data[iter..iter + 2]
Slot(data, iter) == SubSeq(data, iter + 1, iter + 2)

RECURSIVE PlacementLoop(_, _, _, _, _)
\* ObjParser, channels 1, 4, 11-16, 18, 19: `while iter < data.len()`
PlacementLoop(b, measure, channel, data, iter) ==
    IF iter >= Len(data) THEN Applied(b)
    ELSE IF iter + 2 > Len(data) THEN Panicked(b, "byte index out of range")
    ELSE LET n_keysound == from_str(Slot(data, iter))
             tag == IF channel = 4 THEN "BGA" ELSE IF channel = 1 THEN "Auto" ELSE "Note"
         IN IF n_keysound = 0
            THEN PlacementLoop(b, measure, channel, data, iter + 2)
            ELSE PlacementLoop(
                   [b EXCEPT !.objects =
                        Append(@, Object(0, SlotMeasure(measure, iter, data),
                                         channel, tag, n_keysound))],
                   measure, channel, data, iter + 2)

RECURSIVE TempoLoopUnfiltered(_, _, _, _, _)
\* mutant: the tempo is not compared with 0 before with_event
TempoLoopUnfiltered(b, measure, channel, data, iter) ==
    IF iter >= Len(data) THEN Applied(b)
    ELSE IF iter + 2 > Len(data) THEN Panicked(b, "byte index out of range")
    ELSE IF channel = 3 /\ from_str_radix(Slot(data, iter), 16) = -1
    THEN Panicked(b, "unwrap on Err: channel 03 slot")
    ELSE LET bpm_value == IF channel = 3
                          THEN from_str_radix(Slot(data, iter), 16) * FX
                          ELSE find_bpm(b.bpms, from_str(Slot(data, iter)))
         IN TempoLoopUnfiltered(
              [b EXCEPT !.events =
                  Append(@, TimelineEvent("BPM", SlotMeasure(measure, iter, data),
                                          bpm_value))],
              measure, channel, data, iter + 2)

RECURSIVE TempoLoop(_, _, _, _, _)
\* ObjParser, channels 3 and 8: `while iter < data.len()`
TempoLoop(b, measure, channel, data, iter) ==
    IF iter >= Len(data) THEN Applied(b)
    ELSE IF iter + 2 > Len(data) THEN Panicked(b, "byte index out of range")
    ELSE IF channel = 3 /\ from_str_radix(Slot(data, iter), 16) = -1
    THEN Panicked(b, "unwrap on Err: channel 03 slot")
    ELSE LET bpm_value == IF channel = 3
                          THEN from_str_radix(Slot(data, iter), 16) * FX
                          ELSE find_bpm(b.bpms, from_str(Slot(data, iter)))
         IN TempoLoop(
              IF bpm_value # 0
              THEN [b EXCEPT !.events =
                       Append(@, TimelineEvent("BPM", SlotMeasure(measure, iter, data),
                                               bpm_value))]
              ELSE b,
              measure, channel, data, iter + 2)

RECURSIVE StopLoop(_, _, _, _)
\* ObjParser, channel 9: `while iter < data.len()`
StopLoop(b, measure, data, iter) ==
    IF iter >= Len(data) THEN Applied(b)
    ELSE IF iter + 2 > Len(data) THEN Panicked(b, "byte index out of range")
    ELSE LET stop_val == find_stop(b.stops, from_str(Slot(data, iter)))
         IN StopLoop(
              IF stop_val # 0
              THEN [b EXCEPT !.events =
                       Append(@, TimelineEvent("STOP", SlotMeasure(measure, iter, data),
                                               stop_val))]
              ELSE b,
              measure, data, iter + 2)

PlacementChannels == {1, 11, 12, 13, 14, 15, 16, 18, 19, 4}

\* ObjParser::parse_line_into_bms (the lines modelled override measures
\* below NumMeasures only)
ObjParser_into_bms(l, b) ==
    LET r == ObjParser_captures(l) IN
    IF ~r.some THEN NoMatch(b)
    ELSE IF r.channel \in PlacementChannels
    THEN PlacementLoop(b, r.measure, r.channel, r.data, 0)
    ELSE IF r.channel \in {3, 8} THEN TempoLoop(b, r.measure, r.channel, r.data, 0)
    ELSE IF r.channel = 9 THEN StopLoop(b, r.measure, r.data, 0)
    ELSE IF r.channel = 2
    THEN IF ~IsF32(r.data) THEN Panicked(b, "unwrap on Err: channel 02 length")
         ELSE Applied([b EXCEPT !.measure_lens[r.measure + 1] = F32(r.data)])
    ELSE NoMatch(b)

\* mutant: the stop declarations are tried before the channel data
ParsersStopFirst == <<"Metadata", "Wav", "Bga", "Bpm", "Stop", "Obj">>

\* BmsParser::parse, `parsers`: the grammars in the order they are pushed
Parsers == <<"Metadata", "Wav", "Bga", "Bpm", "Obj", "Stop">>

\* line_parser.parse_line_into_bms(&line, &mut bms_builder), by grammar
into_bms(parser, l, b) ==
    CASE parser = "Metadata" -> MetadataParser_into_bms(l, b)
      [] parser = "Wav" -> WavParser_into_bms(l, b)
      [] parser = "Bga" -> BgaParser_into_bms(l, b)
      [] parser = "Bpm" -> BpmParser_into_bms(l, b)
      [] parser = "Obj" -> ObjParser_into_bms(l, b)
      [] parser = "Stop" -> StopParser_into_bms(l, b)

RECURSIVE ParserLoop(_, _, _)
\* BmsParser::parse, `for line_parser in parsers.iter()`: the first grammar
\* that returns true ends the loop
ParserLoop(ps, l, b) ==
    IF ps = <<>> THEN [applied |-> "none", panic |-> "none", b |-> b]
    ELSE LET r == into_bms(Head(ps), l, b) IN
         IF r.matched THEN [applied |-> Head(ps), panic |-> r.panic, b |-> r.b]
         ELSE ParserLoop(Tail(ps), l, r.b)

-----------------------------------------------------------------------------
(* Spec: a load.  BmsParser::parse handles the lines one by one, then      *)
(* BmsBuilder::build makes the chart.                                      *)

\* "#TITLE a": metadata
L_Title == <<"#","T","I","T","L","E"," ","a">>
\* "#WAV01 a": keysound 01
L_Wav == <<"#","W","A","V","0","1"," ","a">>
\* "#BMP01 b": background layer 01
L_Bmp == <<"#","B","M","P","0","1"," ","b">>
\* "#BPM 120": tempo declaration, no key
L_BpmBase == <<"#","B","P","M"," ","1","2","0">>
\* "#BPM01 128": tempo declaration, key 01
L_BpmNamed == <<"#","B","P","M","0","1"," ","1","2","8">>
\* "#BPM00 240": tempo declaration, key 00
L_BpmZeroKey == <<"#","B","P","M","0","0"," ","2","4","0">>
\* "#BPM x": tempo declaration, no number
L_BpmBad == <<"#","B","P","M"," ","x">>
\* "#STOP01 192": stop declaration, key 01
L_Stop == <<"#","S","T","O","P","0","1"," ","1","9","2">>
\* "#STOP01 x": stop declaration, no number
L_StopBad == <<"#","S","T","O","P","0","1"," ","x">>
\* "#00111:0100": placement channel 11, two slots
L_Note == <<"#","0","0","1","1","1",":","0","1","0","0">>
\* "#00111:010": placement channel 11, odd payload
L_NoteOdd == <<"#","0","0","1","1","1",":","0","1","0">>
\* "#00108:0001": named tempo channel, key 01 at measure 1.5
L_TempoNamed == <<"#","0","0","1","0","8",":","0","0","0","1">>
\* "#00103:78": raw tempo channel, 0x78 = 120 at measure 1
L_TempoRaw == <<"#","0","0","1","0","3",":","7","8">>
\* "#00103:zz": raw tempo channel, no hex digits
L_TempoRawBad == <<"#","0","0","1","0","3",":","z","z">>
\* "#00009:01": stop channel, key 01 at measure 0
L_StopAtZero == <<"#","0","0","0","0","9",":","0","1">>
\* "#00109:0001": stop channel, key 01 at measure 1.5
L_StopLater == <<"#","0","0","1","0","9",":","0","0","0","1">>
\* "#00102:2.0": length of measure 1
L_Length == <<"#","0","0","1","0","2",":","2",".","0">>
\* "#00102:x": length of measure 1, no number
L_LengthBad == <<"#","0","0","1","0","2",":","x">>
\* "#00199:01": channel 99
L_Unknown == <<"#","0","0","1","9","9",":","0","1">>
\* "*x": no grammar
L_Comment == <<"*","x">>
\* "#00109:#STOP01 48": stop channel data that is also a stop declaration
L_ObjAndStop == <<"#","0","0","1","0","9",":","#","S","T","O","P","0","1"," ","4","8">>

\* "#00201:00020003": placement channel 01, four slots, keys at 2.25 and 2.75
L_Auto == <<"#","0","0","2","0","1",":","0","0","0","2","0","0","0","3">>
\* "#00004:0A": placement channel 04, one slot
L_Bga == <<"#","0","0","0","0","4",":","0","A">>

\* "#00203:0078": raw tempo channel, a slot of value 0, then 0x78 at 2.5
L_TempoRawZero == <<"#","0","0","2","0","3",":","0","0","7","8">>
\* "#BPM01 0": tempo declaration, key 01, tempo 0
L_BpmNamedZero == <<"#","B","P","M","0","1"," ","0">>

\* "#STOP01 -384": stop declaration, key 01, a negative number
L_StopNeg == <<"#","S","T","O","P","0","1"," ","-","3","8","4">>
\* "#00209:0001": stop channel, key 01 at measure 2.5
L_StopMid == <<"#","0","0","2","0","9",":","0","0","0","1">>

Lines == {L_Title, L_Wav, L_Bmp, L_BpmBase, L_BpmNamed,
          L_BpmZeroKey, L_BpmBad, L_Stop, L_StopBad, L_Note,
          L_NoteOdd, L_TempoNamed, L_TempoRaw, L_TempoRawBad, L_StopAtZero,
          L_StopLater, L_Length, L_LengthBad, L_Unknown, L_Comment,
          L_ObjAndStop, L_Auto, L_Bga, L_TempoRawZero, L_BpmNamedZero,
          L_StopNeg, L_StopMid}

\* one turn of `for line in ...lines()`: the grammars are tried on the line.
\* A panic ends the process: the builder is then left as it was.
ParseLine(l) ==
    /\ pc = "parsing" /\ ncmds < MaxLines
    /\ \E r \in {ParserLoop(Parsers, l, Builder)} :
       /\ line' = l
       /\ applied' = r.applied
       /\ ncmds' = ncmds + 1
       /\ pc' = IF r.panic = "none" THEN "parsing" ELSE "aborted"
       /\ panic' = r.panic
       /\ \E nb \in {IF r.panic = "none" THEN r.b ELSE Builder} :
          /\ metadata' = nb.metadata
          /\ keysounds' = nb.keysounds
          /\ bga_layers' = nb.bga_layers
          /\ objects' = nb.objects
          /\ base_bpm' = nb.base_bpm
          /\ bpms' = nb.bpms
          /\ stops' = nb.stops
          /\ measure_lens' = nb.measure_lens
          /\ events' = nb.events
    /\ UNCHANGED <<timeline, chart, query, codec>>

TITLE == <<"T","I","T","L","E">>
ARTIST == <<"A","R","T","I","S","T">>
MISSING_TITLE == <<"M","I","S","S","I","N","G"," ","T","I","T","L","E">>
MISSING_ARTIST == <<"M","I","S","S","I","N","G"," ","A","R","T","I","S","T">>

\* BmsBuilder::build: the title and artist or their defaults, the objects
\* sorted by measure, the timeline built, every object's time resolved
BmsBuild ==
    /\ pc = "parsing"
    /\ LET r == build(ThisBuilder)
           sorted == SortByMeasure(objects)
       IN IF r.panic # "none"
          THEN /\ pc' = "aborted"
               /\ panic' = r.panic
               /\ UNCHANGED <<objects, timeline, chart>>
          ELSE /\ pc' = "built"
               /\ panic' = "none"
               /\ timeline' = r.events
               /\ objects' = [i \in 1..Len(sorted) |->
                                [sorted[i] EXCEPT
                                    !.time = time_from_measure(r.events, sorted[i].measure)]]
               /\ chart' = [title |-> IF TITLE \in DOMAIN metadata
                                      THEN metadata[TITLE] ELSE MISSING_TITLE,
                            artist |-> IF ARTIST \in DOMAIN metadata
                                       THEN metadata[ARTIST] ELSE MISSING_ARTIST]
    /\ UNCHANGED <<metadata, keysounds, bga_layers, tbVars, ncmds, parseVars, query,
                   codec>>

Next ==
    \/ \E l \in Lines : ParseLine(l)
    \/ BmsBuild

Spec == Init /\ [][Next]_vars


-----------------------------------------------------------------------------
(* Claims about a load (Spec).                                             *)

\* C3: a load aborts only when a tempo declaration or a stop declaration
\* carries a malformed number
C3_AbortsOnlyOnBadDeclaration ==
    pc = "aborted" =>
        panic \in {"Invalid data found on BPM header.",
                   "Invalid data found on STOP header."}

RECURSIVE FirstMatch(_, _, _)
\* the first grammar of order that matches line l
FirstMatch(order, l, b) ==
    IF order = <<>> THEN "none"
    ELSE IF into_bms(Head(order), l, b).matched THEN Head(order)
    ELSE FirstMatch(Tail(order), l, b)

\* a line is handled: the grammar applied is the first of order that
\* matches, and the builder is changed by that grammar alone (not at all
\* when none matches)
FirstMatchApplied(order) ==
    (pc = "parsing" /\ ncmds' = ncmds + 1) =>
        /\ applied' = FirstMatch(order, line', Builder)
        /\ pc' = "parsing" =>
              Builder' = IF applied' = "none" THEN Builder
                         ELSE into_bms(applied', line', Builder).b

\* the priority order as stated: stop declarations before channel data
StatedOrder == <<"Metadata", "Wav", "Bga", "Bpm", "Stop", "Obj">>

\* C7 as stated: the first grammar that matches, in the order metadata,
\* keysound, background layer, tempo declaration, stop declaration, channel
\* data, is the only one applied to the line
C7_StatedOrder == [][FirstMatchApplied(StatedOrder)]_vars

\* C7 amended: the first grammar that matches, in the order metadata,
\* keysound, background layer, tempo declaration, channel data, stop
\* declaration, is the only one applied to the line; the grammars that do
\* not match leave the builder unchanged
C7_PushOrder ==
    [][FirstMatchApplied(<<"Metadata", "Wav", "Bga", "Bpm", "Obj", "Stop">>)]_vars

C7_Witness ==
    /\ pc = "parsing"
    /\ line = L_ObjAndStop
    /\ applied = "Obj"
    /\ stops = EmptyMap

\* C8: a tempo declaration sets the base tempo exactly when its key field
\* is empty; with a key it stores the value in the table under that key and
\* leaves the base tempo unchanged
C8_BaseTempoIffNoKey ==
    [][(pc = "parsing" /\ ncmds' = ncmds + 1 /\ applied' = "Bpm" /\ pc' = "parsing")
          => IF BpmParser_parse_line(line').key = <<>>
             THEN /\ base_bpm' = F32(BpmParser_parse_line(line').data)
                  /\ bpms' = bpms
             ELSE /\ base_bpm' = base_bpm
                  /\ bpms' = Insert(bpms, from_str(BpmParser_parse_line(line').key),
                                    F32(BpmParser_parse_line(line').data))]_vars

RECURSIVE SlotObjects(_, _, _, _)
\* the objects of slots i, i+1, ... of a placement payload of n two-character
\* slots at measure m: one per slot whose key is not 0, at m + i/n
SlotObjects(m, channel, data, i) ==
    LET n == Len(data) \div 2
        key == from_str(<<data[2 * i + 1], data[2 * i + 2]>>)
    IN IF i >= n THEN <<>>
       ELSE (IF key = 0 THEN <<>>
             ELSE <<[time |-> 0,
                     measure |-> m * MU + (i * MU) \div n,
                     channel |-> channel,
                     objtype |-> [tag |-> CASE channel = 1 -> "Auto"
                                            [] channel = 4 -> "BGA"
                                            [] OTHER -> "Note",
                                  key |-> key]]>>)
            \o SlotObjects(m, channel, data, i + 1)

\* C11: a placement-channel line at measure m with n two-character slots
\* adds, for each slot i whose key is not 0 and in slot order, one object at
\* m + i/n with that key, the line's channel and its tag (Auto for channel
\* 1, BGA for channel 4, Note otherwise), and nothing for a slot of key 0
C11_PlacementObjects ==
    [][(/\ pc = "parsing" /\ ncmds' = ncmds + 1 /\ pc' = "parsing"
        /\ applied' = "Obj"
        /\ ObjParser_captures(line').channel \in {1, 4, 11, 12, 13, 14, 15, 16, 18, 19}
        /\ Len(ObjParser_captures(line').data) % 2 = 0)
          => objects' = objects \o SlotObjects(ObjParser_captures(line').measure,
                                               ObjParser_captures(line').channel,
                                               ObjParser_captures(line').data, 0)]_vars

\* the four-slot line was parsed: its two keys made two objects
C11_Witness ==
    /\ pc = "parsing"
    /\ line = L_Auto
    /\ Len(objects) = 2
    /\ objects[1].measure = 2 * MU + MU \div 4
    /\ objects[2].measure = 2 * MU + 3 * (MU \div 4)
    /\ objects[2].objtype = [tag |-> "Auto", key |-> 3]

\* the value slot i of a timing channel stands for: the hexadecimal number
\* (channel 3), the tempo declared for the key (channel 8), the stop
\* declared for the key (channel 9); 0 when the key is not declared
SlotValue(channel, slot) ==
    CASE channel = 3 -> from_str_radix(slot, 16) * FX
      [] channel = 8 -> IF from_str(slot) \in DOMAIN bpms THEN bpms[from_str(slot)] ELSE 0
      [] channel = 9 -> IF from_str(slot) \in DOMAIN stops THEN stops[from_str(slot)] ELSE 0

RECURSIVE SlotEvents(_, _, _, _)
\* the commands of slots i, i+1, ... of a timing payload of n two-character
\* slots at measure m: one per slot whose value is not 0, at m + i/n
SlotEvents(m, channel, data, i) ==
    LET n == Len(data) \div 2
        val == SlotValue(channel, <<data[2 * i + 1], data[2 * i + 2]>>)
    IN IF i >= n THEN <<>>
       ELSE (IF val = 0 THEN <<>>
             ELSE <<[kind |-> IF channel = 9 THEN "STOP" ELSE "BPM",
                     measure |-> m * MU + (i * MU) \div n,
                     val |-> val]>>)
            \o SlotEvents(m, channel, data, i + 1)

\* C12: a tempo channel line or a stop channel line adds one command per
\* slot whose value is not 0, in slot order, and none for a raw slot of
\* value 0 or a slot whose key is undeclared or declared as 0; no command
\* of value 0 is ever in the builder
C12_ZeroFiltered ==
    [][(/\ pc = "parsing" /\ ncmds' = ncmds + 1 /\ pc' = "parsing"
        /\ applied' = "Obj"
        /\ ObjParser_captures(line').channel \in {3, 8, 9})
          => /\ events' = events \o SlotEvents(ObjParser_captures(line').measure,
                                               ObjParser_captures(line').channel,
                                               ObjParser_captures(line').data, 0)
             /\ \A i \in 1..Len(events') : events'[i].val # 0]_vars

\* the raw tempo line with a slot of value 0 was parsed: only its second
\* slot made a command
C12_Witness ==
    /\ pc = "parsing"
    /\ line = L_TempoRawZero
    /\ events = <<[kind |-> "BPM", measure |-> 2 * MU + MU \div 2, val |-> 120 * FX]>>

\* the value a declaration line carries, as the grammar applied captured it
DeclaredValue(l, grammar) ==
    IF grammar = "Bpm" THEN BpmParser_parse_line(l).data
    ELSE StopParser_parse_line(l).data

\* every slot of a named-tempo or stop channel payload names a key that is
\* not declared (so far)
AllUndeclared(channel, data) ==
    /\ Len(data) % 2 = 0
    /\ \A i \in 0..(Len(data) \div 2 - 1) :
          from_str(<<data[2 * i + 1], data[2 * i + 2]>>)
              \notin DOMAIN (IF channel = 8 THEN bpms ELSE stops)

\* C13: a tempo or stop declaration whose value is no number aborts the
\* load, and an aborted load has no chart and no timeline; a named-tempo or
\* stop channel line whose keys are all undeclared does not abort and adds
\* no timing command, and the build of a builder without timing commands
\* completes with a chart
C13_FatalAndNonFatal ==
    [][/\ (/\ pc = "parsing" /\ ncmds' = ncmds + 1
           /\ applied' \in {"Bpm", "Stop"}
           /\ ~IsF32(DeclaredValue(line', applied')))
             => pc' = "aborted"
       /\ pc' = "aborted" => (chart' = NoChart /\ timeline' = <<>>)
       /\ (/\ pc = "parsing" /\ ncmds' = ncmds + 1
           /\ applied' = "Obj"
           /\ ObjParser_captures(line').channel \in {8, 9}
           /\ AllUndeclared(ObjParser_captures(line').channel,
                            ObjParser_captures(line').data))
             => (pc' = "parsing" /\ events' = events)
       /\ (pc = "parsing" /\ ncmds' = ncmds /\ events = <<>>)
             => (pc' = "built" /\ chart' # NoChart /\ Len(timeline') >= 1)]_vars

\* a load of one stop channel line whose key is undeclared returned a chart
\* without a stop
C13_Witness ==
    /\ pc = "built"
    /\ ncmds = 1
    /\ line = L_StopLater
    /\ events = <<>>
    /\ chart # NoChart

\* C14: in the chart build returns the objects are ordered non-decreasing
\* by time, and the time of each is time_from_measure of its measure on the
\* chart's timeline
C14_ObjectsTimeOrdered ==
    pc = "built" =>
        /\ \A i \in 1..(Len(objects) - 1) : objects[i].time <= objects[i + 1].time
        /\ \A i \in 1..Len(objects) :
              objects[i].time = time_from_measure(timeline, objects[i].measure)

\* BmsBuilder::new: the builder a load starts from
NewBuilder ==
    [metadata |-> EmptyMap, keysounds |-> EmptyMap, bga_layers |-> EmptyMap,
     objects |-> <<>>, base_bpm |-> NewBaseBpm, bpms |-> EmptyMap,
     stops |-> EmptyMap, measure_lens |-> NewMeasureLens, events |-> <<>>]

\* the builder after the loop of BmsParser::parse over the lines l1, l2
LoadTwo(l1, l2) ==
    ParserLoop(Parsers, l2, ParserLoop(Parsers, l1, NewBuilder).b)

\* the timeline BmsBuilder::build builds from the builder b
TimelineOf(b) == build(TimelineBuilder(b.base_bpm, b.measure_lens, b.events))

\* no tempo or stop key is declared by both lines
DeclaredOnce(l1, l2) ==
    LET a1 == ParserLoop(Parsers, l1, NewBuilder).applied
        a2 == ParserLoop(Parsers, l2, NewBuilder).applied
    IN ~(/\ a1 = a2 /\ a1 \in {"Bpm", "Stop"}
         /\ IF a1 = "Bpm"
            THEN from_str(BpmParser_parse_line(l1).key)
                    = from_str(BpmParser_parse_line(l2).key)
            ELSE from_str(StopParser_parse_line(l1).key)
                    = from_str(StopParser_parse_line(l2).key))

\* no two timing commands share a measure
DistinctMeasures(evs) ==
    \A i, j \in 1..Len(evs) : i # j => evs[i].measure # evs[j].measure

\* C19: the built timeline does not depend on the order of the lines: a
\* load of two lines that declare no key twice and put no two timing
\* commands on one measure builds the timeline that the load of the same
\* lines in the other order builds
C19_LineOrderIndependent ==
    [][(/\ ncmds = 1 /\ ncmds' = 2 /\ pc' = "parsing"
        /\ DeclaredOnce(line, line')
        /\ DistinctMeasures(events')
        /\ DistinctMeasures(LoadTwo(line', line).b.events))
          => TimelineOf(Builder') = TimelineOf(LoadTwo(line', line).b)]_vars

-----------------------------------------------------------------------------
(* More claims about the built timeline (SpecTimeline).                    *)

\* no tempo change or stop falls inside measure k, and no stop on either of
\* its ends
Quiet(k) ==
    \A i \in 1..Len(events) :
        /\ ~(k * MU < events[i].measure /\ events[i].measure < (k + 1) * MU)
        /\ events[i].kind = "STOP" =>
              (events[i].measure # k * MU /\ events[i].measure # (k + 1) * MU)

\* the time measure k takes on the built timeline
MeasureDuration(k) ==
    time_from_measure(timeline, (k + 1) * MU) - time_from_measure(timeline, k * MU)

CommandVals(kind, m) ==
    {events[i].val : i \in {j \in 1..Len(events) :
                                events[j].kind = kind /\ events[j].measure = m}}

\* the events of the built timeline on measure m follow the order of a stop
\* breakpoint.  With p the event appended before m was reached: a snapshot
\* event with p's tempo and length and the time advanced from p; then an
\* event with the same tempo and length, later by the duration of a stop of
\* m at p's tempo; then, only when the tempo or the length of m differs
\* from p's, the event of m itself, at the time of the event before it.
StopOrderAt(m) ==
    LET at == {i \in 1..Len(timeline) : timeline[i].measure = m}
        first == CHOOSE i \in at : \A j \in at : i <= j
        p == timeline[first - 1]
        snap == timeline[first]
        stop == timeline[first + 1]
        len == IF m % MU = 0 THEN measure_lens[m \div MU + 1] ELSE p.length
        bpms_at == IF CommandVals("BPM", m) = {} THEN {p.bpm}
                   ELSE CommandVals("BPM", m)
    IN /\ Cardinality(at) \in {2, 3}
       /\ first > 1
       /\ snap = [p EXCEPT !.measure = m,
                           !.time = p.time + MeasureMs(m - p.measure, p.bpm, p.length),
                           !.pos = snap.pos]
       /\ \E d \in CommandVals("STOP", m) :
             stop = [snap EXCEPT !.time = snap.time + StopMs(p.bpm, d)]
       /\ IF Cardinality(at) = 3
          THEN /\ timeline[first + 2].time = stop.time
               /\ timeline[first + 2].bpm \in bpms_at
               /\ timeline[first + 2].length = len
               /\ (timeline[first + 2].bpm # p.bpm \/ len # p.length)
          ELSE p.bpm \in bpms_at /\ len = p.length

\* C17: at every breakpoint that carries a stop build appends the snapshot
\* event, then the stop event, then the breakpoint's own event if its tempo
\* or length differs
C17_StopOrder ==
    pc = "built" =>
        \A i \in 1..Len(events) :
            events[i].kind = "STOP" => StopOrderAt(events[i].measure)

\* a stop and a tempo change share measure 1: snapshot at 2000 ms with the
\* old tempo, stop event 2000 ms later at the old tempo, then the new tempo
C17_Witness ==
    /\ pc = "built"
    /\ base_bpm = 120 * FX
    /\ CommandVals("STOP", MU) = {192 * FX}
    /\ CommandVals("BPM", MU) = {128 * FX}
    /\ Len(timeline) = 4
    /\ timeline[2].measure = MU /\ timeline[2].time = 2000 /\ timeline[2].bpm = 120 * FX
    /\ timeline[3].measure = MU /\ timeline[3].time = 4000 /\ timeline[3].bpm = 120 * FX
    /\ timeline[4].measure = MU /\ timeline[4].time = 4000 /\ timeline[4].bpm = 128 * FX

\* the keys are in non-decreasing order
Sorted(keys) == \A i \in 1..(Len(keys) - 1) : keys[i] <= keys[i + 1]

\* the largest 0-based index whose key is <= q, 0 when no key is
LargestLE(keys, q) ==
    LET le == {i \in 1..Len(keys) : keys[i] <= q} IN
    IF le = {} THEN 0 ELSE (CHOOSE i \in le : \A j \in le : j <= i) - 1

MeasureKeys == [i \in 1..Len(timeline) |-> timeline[i].measure]
TimeKeys == [i \in 1..Len(timeline) |-> timeline[i].time]

\* C18: on a sorted event sequence last_event_index_in_measure and
\* last_event_index_in_time return the largest index whose key is <= the
\* query, from whichever element of a run of equal keys the search hits,
\* and index 0 when no key is <= the query
C18_LastIndex ==
    pc = "built" =>
        /\ (query.op \in {"time_from_measure", "round_trip"} /\ Sorted(MeasureKeys)) =>
              /\ last_event_index_in_measure(timeline, query.measure)
                    = LargestLE(MeasureKeys, query.measure)
              /\ \A h \in 1..Len(timeline) :
                    MeasureKeys[h] = query.measure =>
                        WalkForward(MeasureKeys, query.measure, h - 1)
                            = LargestLE(MeasureKeys, query.measure)
        /\ (query.op \in {"measure_from_time", "round_trip"} /\ Sorted(TimeKeys)) =>
              /\ last_event_index_in_time(timeline, query.time)
                    = LargestLE(TimeKeys, query.time)
              /\ \A h \in 1..Len(timeline) :
                    TimeKeys[h] = query.time =>
                        WalkForward(TimeKeys, query.time, h - 1)
                            = LargestLE(TimeKeys, query.time)

\* the query hits the three events of a stop breakpoint on measure 1 and
\* gets the last of them
C18_Witness ==
    /\ pc = "built" /\ query.op = "time_from_measure" /\ query.measure = MU
    /\ Len(timeline) = 4 /\ Sorted(TimeKeys)
    /\ timeline[2].measure = MU /\ timeline[4].measure = MU
    /\ last_event_index_in_measure(timeline, MU) = 3
    /\ query.time = timeline[4].time

-----------------------------------------------------------------------------
(* SpecCodec: Alphanumeric driven through from_str, from_int and           *)
(* as_base36.                                                              *)

\* the characters to_digit(36) accepts
Alnum == Range(BASE36) \cup Range(LOWER36)
\* a digit, a letter in each case, the signs and a blank
TokChars == {"1", "Z", "z", "+", "-", " "}

RECURSIVE TokensOfLen(_, _)
TokensOfLen(chars, n) ==
    IF n = 0 THEN {<<>>}
    ELSE {Append(t, c) : t \in TokensOfLen(chars, n - 1), c \in chars}

\* the tokens handed to from_str: every two-character token of digits and
\* letters, and every token of TokChars up to MaxTokLen characters
Tokens ==
    TokensOfLen(Alnum, 2)
        \cup UNION {TokensOfLen(TokChars, n) : n \in 0..MaxTokLen}

\* the largest key of the range 00-ZZ
MaxKey == 36 * 36 - 1
\* the integers handed to from_int: the range 00-ZZ and the first one past it
Ints == 0..(MaxKey + 1)

\* a call of Alphanumeric::from_str
CodecFromStr(tok) ==
    /\ pc = "parsing" /\ codec.op = "none"
    /\ codec' = [NoCodec EXCEPT !.op = "from_str", !.tok = tok,
                                !.key = from_str(tok)]
    /\ UNCHANGED <<pc, panic, bmsVars, tbVars, timeline, chart, ncmds, parseVars,
                   query>>

\* a call of Alphanumeric::from_int
CodecFromInt(key) ==
    /\ pc = "parsing" /\ codec.op = "none"
    /\ codec' = [NoCodec EXCEPT !.op = "from_int", !.key = from_int(key)]
    /\ UNCHANGED <<pc, panic, bmsVars, tbVars, timeline, chart, ncmds, parseVars,
                   query>>

\* a call of as_base36 on the Alphanumeric just made: its text, or the panic
\* of expect("Bad alphanumeric")
CodecAsBase36 ==
    /\ pc = "parsing" /\ codec.op \in {"from_str", "from_int"}
    /\ IF as_base36(codec.key) = "panic"
       THEN /\ pc' = "aborted"
            /\ panic' = "Bad alphanumeric"
            /\ UNCHANGED codec
       ELSE /\ codec' = [codec EXCEPT
                            !.op = IF codec.op = "from_str"
                                   THEN "from_str.as_base36"
                                   ELSE "from_int.as_base36",
                            !.text = as_base36(codec.key)]
            /\ UNCHANGED <<pc, panic>>
    /\ UNCHANGED <<bmsVars, tbVars, timeline, chart, ncmds, parseVars, query>>

\* a call of from_str on the text as_base36 returned for an integer
CodecBack ==
    /\ pc = "parsing" /\ codec.op = "from_int.as_base36"
    /\ codec' = [codec EXCEPT !.op = "from_int.as_base36.from_str",
                              !.back = from_str(codec.text)]
    /\ UNCHANGED <<pc, panic, bmsVars, tbVars, timeline, chart, ncmds, parseVars,
                   query>>

NextCodec ==
    \/ \E tok \in Tokens : CodecFromStr(tok)
    \/ \E key \in Ints : CodecFromInt(key)
    \/ CodecAsBase36
    \/ CodecBack

SpecCodec == Init /\ [][NextCodec]_vars

-----------------------------------------------------------------------------
(* Claims about the key codec (SpecCodec).                                 *)

\* a token of exactly two base-36 digit characters, in either letter case
TwoDigits(tok) == Len(tok) = 2 /\ tok[1] \in Alnum /\ tok[2] \in Alnum

\* the upper-case form of a token
Upper(tok) ==
    [i \in 1..Len(tok) |->
        IF \E j \in 11..36 : LOWER36[j] = tok[i]
        THEN BASE36[CHOOSE j \in 11..36 : LOWER36[j] = tok[i]]
        ELSE tok[i]]

\* C9: from_str returns key 0 for every token that is not exactly two
\* base-36 digit characters, and every key it returns lies in [0, 1295]
C9_InvalidTokenIsZero ==
    codec.op = "from_str" =>
        /\ ~TwoDigits(codec.tok) => codec.key = 0
        /\ codec.key \in 0..MaxKey

\* C10: for a two-character token t of base-36 digits as_base36(from_str(t))
\* is the upper-case form of t; for a key k in [0, 1295] as_base36(k) is two
\* base-36 characters, zero-padded, and from_str of them is k again; neither
\* call panics
C10_CodecRoundTrip ==
    /\ (codec.op = "from_str" /\ TwoDigits(codec.tok)) => pc # "aborted"
    /\ (codec.op = "from_str.as_base36" /\ TwoDigits(codec.tok))
          => codec.text = Upper(codec.tok)
    /\ (codec.op = "from_int" /\ codec.key \in 0..MaxKey) => pc # "aborted"
    /\ (codec.op = "from_int.as_base36" /\ codec.key \in 0..MaxKey)
          => /\ Len(codec.text) = 2
             /\ codec.text[1] \in Range(BASE36) /\ codec.text[2] \in Range(BASE36)
             /\ codec.key < 36 => codec.text[1] = "0"
    /\ (codec.op = "from_int.as_base36.from_str" /\ codec.key \in 0..MaxKey)
          => codec.back = codec.key

C10_Witness ==
    /\ codec.op = "from_str.as_base36"
    /\ codec.tok = <<"1", "z">>
    /\ codec.text = <<"1", "Z">>

====
